---- MODULE Spec2Model ----
(***************************************************************************)
(* State-machine model of DensPart's variational Hirshfeld core            *)
(* (src/denspart/vh.py, src/denspart/properties.py).                       *)
(*                                                                         *)
(* Floating point numbers are modelled by integers.  Python indices are    *)
(* 0-based in the source; sequences here are 1-based, so the element with  *)
(* Python index i is element i + 1.                                        *)
(***************************************************************************)
EXTENDS Integers, Sequences, FiniteSets, TLC

VARIABLES
    pc,          \* phase: "new", "ready", "opt", "returned", "raised", "done"
    fns,         \* ProModel.fns: the BasisFunction objects, in order
    atnums,      \* ProModel.atnums
    atcoords,    \* ProModel.atcoords
    ncompute,    \* ProModel.ncompute
    grid,        \* the integration grid: [points, weights]
    density,     \* the reference density on the grid
    localgrids,  \* optimize_pro_model: localgrids
    pop,         \* optimize_pro_model: pop
    pars0,       \* optimize_pro_model: pars0
    bounds,      \* optimize_pro_model: bounds
    nevals,      \* number of evaluator calls made by the running minimizer
    optresult,   \* optimize_pro_model: optresult
    trial,       \* the vector of the minimizer's last evaluator call
    call,        \* the last operation: [op, err]
    assigned,    \* the last assign_pars call since the driver was entered
                 \* (or since construction): [arg, total, ok]
    ret          \* the value returned by the last operation

vars == <<pc, fns, atnums, atcoords, ncompute, grid, density, localgrids,
          pop, pars0, bounds, nevals, optresult, trial, call, assigned,
          ret>>

-----------------------------------------------------------------------------
(* Bounds of the model. *)

\* Largest number of basis functions of a model.
MaxFns == 2

\* Largest total number of parameters of a constructed model.
MaxTotal == 2

\* Largest first element of an input parameter vector.
MaxPar == 1

\* Largest number of evaluator calls of one minimization.
MaxEvals == 2

\* Largest nmax given to compute_radial_moments.
MaxDegree == 1

-----------------------------------------------------------------------------
(* Inputs. *)

\* The container types a caller can hand to BasisFunction as pars: a Python
\* list or a NumPy array (the constructor stores the object as it is).
ParsTypes == {"list", "ndarray"}

\* Parameter vectors of length n: c, c + 1, c + 2, ...  All elements differ,
\* so that every element's position shows.
ParVectors(n) == {[i \in 1..n |-> c + i - 1] : c \in 0..MaxPar}

\* Bound lists of length n: (0, hi), (1, hi), ...: all tuples differ.
BoundLists(n) == {[i \in 1..n |-> <<i - 1, hi>>] : hi \in {MaxPar + MaxTotal}}

\* The molecule: atomic numbers and (one-dimensional) coordinates.
InputAtnums == <<1, 8>>
InputAtcoords == <<1, 3>>

\* The grid and the reference density on it: the density is below the
\* cutoff on one point.
InputGrids == {[points |-> <<1, 2, 3>>, weights |-> <<1, 2, 1>>]}
InputDensities == {<<2, 0, 1>>}

-----------------------------------------------------------------------------
(* Helpers for NumPy and Python sequences. *)

Min(a, b) == IF a < b THEN a ELSE b

Abs(a) == IF a < 0 THEN -a ELSE a

RECURSIVE SumSeq(_)
SumSeq(s) == IF s = <<>> THEN 0 ELSE s[1] + SumSeq(Tail(s))

\* Python's s[lo:hi] for 0 <= lo: the slice is clipped to the sequence.
Slice(s, lo, hi) == SubSeq(s, Min(lo, Len(s)) + 1, Min(hi, Len(s)))

\* np.concatenate of a sequence of vectors.
RECURSIVE Concatenate(_)
Concatenate(ss) == IF ss = <<>> THEN <<>> ELSE ss[1] \o Concatenate(Tail(ss))

-----------------------------------------------------------------------------
(* BasisFunction *)

\* BasisFunction.__init__: the error check.
BasisFunctionInitFails(pars, bnds) == Len(pars) # Len(bnds)

\* BasisFunction.__init__: the object.  parstype is the type of the object
\* stored in self.pars.
BasisFunctionInit(iatom, center, pars, bnds, parstype) ==
    [iatom |-> iatom, center |-> center, pars |-> pars, bounds |-> bnds,
     parstype |-> parstype]

\* BasisFunction.npar
npar(fn) == Len(fn.pars)

-----------------------------------------------------------------------------
(* ProModel *)

\* ProModel.natom
natom(ats) == Len(ats)

\* The shape's population (a subclass method): the sum of the parameters.
population(fn) == SumSeq(fn.pars)

\* ProModel.population
RECURSIVE ModelPopulation(_)
ModelPopulation(fs) ==
    IF fs = <<>> THEN 0 ELSE population(fs[1]) + ModelPopulation(Tail(fs))

\* ProModel.charges: the loop over the functions, from function k on.
RECURSIVE ChargesLoop(_, _, _)
ChargesLoop(ch, fs, k) ==
    IF k > Len(fs) THEN ch
    ELSE ChargesLoop(
             [ch EXCEPT ![fs[k].iatom + 1] = @ - population(fs[k])], fs, k + 1)

\* charges with function k charged to atom k instead of atom fn.iatom.
charges_wrongatom(ats, fs) ==
    LET RECURSIVE Loop(_, _)
        Loop(ch, k) ==
            IF k > Len(fs) THEN ch
            ELSE Loop([ch EXCEPT ![Min(k, Len(ats))] = @ - population(fs[k])],
                      k + 1)
    IN  Loop(ats, 1)

\* ProModel.charges
charges(ats, fs) == ChargesLoop(ats, fs, 1)

\* ProModel.get_results
get_results(ats, fs) ==
    [atnfn |-> [a \in 1..natom(ats) |->
                    Cardinality({k \in 1..Len(fs) : fs[k].iatom + 1 = a})],
     atnpar |-> [a \in 1..natom(ats) |->
                    SumSeq([k \in 1..Len(fs) |->
                        IF fs[k].iatom + 1 = a THEN Len(fs[k].pars) ELSE 0])],
     propars |-> Concatenate([k \in 1..Len(fs) |-> fs[k].pars])]

\* NumPy's rule for a[:] = b with one-dimensional a and b: the shapes are
\* equal or b has one element, which is broadcast.
BroadcastOK(srclen, dstlen) == srclen = dstlen \/ srclen = 1

\* fn.pars[:] = src for a Python list: the list's content is replaced by
\* src, whatever its length.  For a NumPy array: the elements are
\* overwritten (src broadcast if it has one element), the length is kept.
SetPars(fn, src) ==
    IF fn.parstype = "list" THEN [fn EXCEPT !.pars = src]
    ELSE [fn EXCEPT !.pars = [i \in 1..Len(fn.pars) |->
                                  IF Len(src) = 1 THEN src[1] ELSE src[i]]]

\* ProModel.assign_pars: the loop body for function k and the rest of the
\* loop.  The result is the functions and whether an exception was raised.
RECURSIVE AssignLoop(_, _, _, _)
AssignLoop(fs, v, k, ipar) ==
    IF k > Len(fs) THEN [fns |-> fs, err |-> FALSE]
    ELSE LET src == Slice(v, ipar, ipar + npar(fs[k]))
         IN  IF fs[k].parstype = "ndarray"
                /\ ~BroadcastOK(Len(src), npar(fs[k]))
             THEN [fns |-> fs, err |-> TRUE]
             ELSE LET fn == SetPars(fs[k], src)
                  IN  AssignLoop([fs EXCEPT ![k] = fn], v, k + 1,
                                 ipar + npar(fn))

\* assign_pars with ipar never advanced: every function reads from 0.
assign_pars_noadvance(fs, v) ==
    LET RECURSIVE Loop(_, _)
        Loop(gs, k) ==
            IF k > Len(gs) THEN [fns |-> gs, err |-> FALSE]
            ELSE LET src == Slice(v, 0, npar(gs[k]))
                 IN  IF gs[k].parstype = "ndarray"
                        /\ ~BroadcastOK(Len(src), npar(gs[k]))
                     THEN [fns |-> gs, err |-> TRUE]
                     ELSE Loop([gs EXCEPT ![k] = SetPars(gs[k], src)], k + 1)
    IN  Loop(fs, 1)

\* assign_pars with the loop ending one function early.
assign_pars_skiplast(fs, v) ==
    LET r == AssignLoop(SubSeq(fs, 1, Len(fs) - 1), v, 1, 0)
    IN  [fns |-> Append(r.fns, fs[Len(fs)]), err |-> r.err]

\* ProModel.assign_pars
assign_pars(fs, v) == AssignLoop(fs, v, 1, 0)

\* The model's total parameter count.
TotalNpar(fs) == SumSeq([k \in 1..Len(fs) |-> npar(fs[k])])

-----------------------------------------------------------------------------
(* The shape of the basis functions and the grid's local grids. *)

\* Scaled values of the default density cutoffs.
DriverDensityCutoff == 1
EkldDensityCutoff == 1

\* The cutoff radius of the local grids of compute_radial_moments.
RadialCutoff == 8

\* The value at distance r of the kernel that parameter k multiplies.
Kernel(k, r) == k + r

\* BasisFunction.compute: the values on the given points.
compute(fn, points) ==
    [j \in 1..Len(points) |->
        SumSeq([k \in 1..npar(fn) |->
                   fn.pars[k] * Kernel(k, Abs(points[j] - fn.center))])]

\* BasisFunction.compute_derivatives: one row per parameter.
compute_derivatives(fn, points) ==
    [k \in 1..npar(fn) |->
        [j \in 1..Len(points) |-> Kernel(k, Abs(points[j] - fn.center))]]

\* BasisFunction.population_derivatives
population_derivatives(fn) == [k \in 1..npar(fn) |-> 1]

\* BasisFunction.get_cutoff_radius
get_cutoff_radius(fn, density_cutoff) ==
    IF population(fn) >= density_cutoff THEN 1 ELSE 0

\* The grid points within the radius, in grid order, from point i on.
RECURSIVE WithinRadius(_, _, _, _)
WithinRadius(g, center, radius, i) ==
    IF i > Len(g.points) THEN <<>>
    ELSE (IF Abs(g.points[i] - center) <= radius THEN <<i>> ELSE <<>>)
         \o WithinRadius(g, center, radius, i + 1)

\* Grid.get_localgrid
get_localgrid(g, center, radius) ==
    LET idx == WithinRadius(g, center, radius, 1)
    IN  [indices |-> idx,
         points |-> [j \in 1..Len(idx) |-> g.points[idx[j]]],
         weights |-> [j \in 1..Len(idx) |-> g.weights[idx[j]]]]

\* np.add.at(pro, indices, values), from element j of indices on.
RECURSIVE AddAt(_, _, _, _)
AddAt(pro, indices, values, j) ==
    IF j > Len(indices) THEN pro
    ELSE AddAt([pro EXCEPT ![indices[j]] = @ + values[j]], indices, values,
               j + 1)

\* ProModel.compute_density: the loop over zip(fns, localgrids).
RECURSIVE DensityLoop(_, _, _, _)
DensityLoop(pro, fs, lgs, k) ==
    IF k > Min(Len(fs), Len(lgs)) THEN pro
    ELSE DensityLoop(AddAt(pro, lgs[k].indices,
                           compute(fs[k], lgs[k].points), 1),
                     fs, lgs, k + 1)

\* ProModel.compute_density: the density it returns.
compute_density(fs, g, lgs) ==
    DensityLoop([i \in 1..Len(g.weights) |-> 0], fs, lgs, 1)

\* ProModel.compute_proatom
compute_proatom(fs, iatom, g) ==
    [j \in 1..Len(g.points) |->
        SumSeq([k \in 1..Len(fs) |->
                   IF fs[k].iatom = iatom THEN compute(fs[k], g.points)[j]
                   ELSE 0])]

-----------------------------------------------------------------------------
(* ekld *)

\* np.log on integers: the floor of the binary logarithm, and a large
\* negative number for -inf.
RECURSIVE Log(_)
Log(x) == IF x <= 0 THEN -1000 ELSE IF x = 1 THEN 0 ELSE 1 + Log(x \div 2)

\* density / pro with the errors ignored: a large number for inf and nan.
Divide(d, p) == IF p = 0 THEN 1000 ELSE d \div p

\* The mask without the test of the model density.
sick_densityonly(d, p, cutoff) == d < cutoff

\* ekld: the mask of one point.
sick(d, p, cutoff) == d < cutoff \/ p < cutoff

\* ekld: lnratio after masking.
lnratio(dens, pro, cutoff) ==
    [i \in 1..Len(dens) |->
        IF sick(dens[i], pro[i], cutoff) THEN 0
        ELSE Log(dens[i]) - Log(pro[i])]

\* ekld: ratio after masking.
ratio(dens, pro, cutoff) ==
    [i \in 1..Len(dens) |->
        IF sick(dens[i], pro[i], cutoff) THEN 0 ELSE Divide(dens[i], pro[i])]

\* ekld: kld
kld(g, dens, pro, cutoff) ==
    SumSeq([i \in 1..Len(dens) |->
               g.weights[i] * dens[i] * lnratio(dens, pro, cutoff)[i]])

\* ekld: the gradient slice of one function, from its local grid.
GradientSlice(fn, lg, rat) ==
    LET fn_derivatives == compute_derivatives(fn, lg.points)
    IN  [k \in 1..npar(fn) |->
            population_derivatives(fn)[k]
            - SumSeq([j \in 1..Len(lg.indices) |->
                         lg.weights[j] * rat[lg.indices[j]]
                         * fn_derivatives[k][j]])]

\* ekld: the gradient loop, from function ifn on.
RECURSIVE GradientLoop(_, _, _, _, _, _)
GradientLoop(gradient, fs, lgs, rat, ifn, ipar) ==
    IF ifn > Len(fs) THEN gradient
    ELSE LET slice == GradientSlice(fs[ifn], lgs[ifn], rat)
         IN  GradientLoop([i \in 1..Len(gradient) |->
                              IF ipar < i /\ i <= ipar + npar(fs[ifn])
                              THEN slice[i - ipar] ELSE gradient[i]],
                          fs, lgs, rat, ifn + 1, ipar + npar(fs[ifn]))

\* ekld, after assign_pars: what it returns (and kld, which it prints) for
\* the model's functions fs, whose parameters were just assigned.
ekld(pars, g, dens, fs, lgs, refpop, cutoff) ==
    LET pro == compute_density(fs, g, lgs)
        k == kld(g, dens, pro, cutoff)
        constraint == refpop - ModelPopulation(fs)
    IN  [result |-> k - constraint,
         gradient |-> GradientLoop([i \in 1..Len(pars) |-> 0], fs, lgs,
                                   ratio(dens, pro, cutoff), 1, 0),
         kld |-> k]

-----------------------------------------------------------------------------
(* optimize_pro_model and compute_radial_moments *)

\* The convergence check left out.
ConvergenceFailure_ignored(res) == FALSE

\* optimize_pro_model: the convergence check.
ConvergenceFailure(res) == ~res.success

\* The wrap-up without the final assign_pars.
WrapUp_nowriteback(fs, res) == [fns |-> fs, err |-> FALSE]

\* optimize_pro_model: the final assignment of the minimizer's result.
WrapUp(fs, res) == assign_pars(fs, res.x)

\* dists ** degree
RECURSIVE Pow(_, _)
Pow(b, e) == IF e = 0 THEN 1 ELSE b * Pow(b, e - 1)

\* compute_radial_moments: the row of one atom.
RadialMomentsRow(fs, g, dens, pro, iatom, atcoord, nmax) ==
    LET localgrid == get_localgrid(g, atcoord, RadialCutoff)
        pro_atom == compute_proatom(fs, iatom, localgrid)
    IN  [d \in 1..(nmax + 1) |->
            SumSeq([j \in 1..Len(localgrid.indices) |->
                       localgrid.weights[j] * dens[localgrid.indices[j]]
                       * Pow(Abs(localgrid.points[j] - atcoord), d - 1)
                       * Divide(pro_atom[j], pro[localgrid.indices[j]])])]

\* compute_radial_moments: the array it returns.
compute_radial_moments(fs, ats, coords, g, dens, lgs, nmax) ==
    LET pro == compute_density(fs, g, lgs)
    IN  [a \in 1..natom(ats) |->
            RadialMomentsRow(fs, g, dens, pro, a - 1, coords[a], nmax)]

-----------------------------------------------------------------------------
(* State machine: construction and the model's methods. *)

\* The bookkeeping of the calls and the driver's locals before they are set.
NoCall == [op |-> "none", err |-> FALSE]
NoAssign == [arg |-> <<>>, total |-> -1, ok |-> FALSE]
NoGrid == [points |-> <<>>, weights |-> <<>>]
NoResult == [returned |-> FALSE, success |-> FALSE, x |-> <<>>]

Init ==
    /\ pc = "new"
    /\ fns = <<>>
    /\ atnums = <<>>
    /\ atcoords = <<>>
    /\ ncompute = 0
    /\ grid = NoGrid
    /\ density = <<>>
    /\ localgrids = <<>>
    /\ pop = 0
    /\ pars0 = <<>>
    /\ bounds = <<>>
    /\ nevals = 0
    /\ optresult = NoResult
    /\ trial = <<>>
    /\ call = NoCall
    /\ assigned = NoAssign
    /\ ret = <<>>

\* The caller constructs one more BasisFunction for the model it is building.
\* Functions are created atom by atom, centered on their atom, with their
\* parameters in one type of container.
NewBasisFunction ==
    /\ pc = "new"
    /\ Len(fns) < MaxFns
    /\ \E iatom \in 0..(Len(InputAtnums) - 1),
          n \in 0..(MaxTotal - TotalNpar(fns)),
          nb \in 0..MaxTotal, parstype \in ParsTypes :
         \E pars \in ParVectors(n), bnds \in BoundLists(nb) :
           /\ fns # <<>> => /\ iatom >= fns[Len(fns)].iatom
                            /\ parstype = fns[1].parstype
           /\ IF BasisFunctionInitFails(pars, bnds)
              THEN /\ call' = [op |-> "BasisFunction", err |-> TRUE]
                   /\ fns' = fns
              ELSE /\ call' = [op |-> "BasisFunction", err |-> FALSE]
                   /\ fns' = Append(fns,
                          BasisFunctionInit(iatom, InputAtcoords[iatom + 1],
                                            pars, bnds, parstype))
    /\ UNCHANGED <<pc, atnums, atcoords, ncompute, grid, density, localgrids,
                   pop, pars0, bounds, nevals, optresult, trial, assigned,
                   ret>>

\* ProModel.__init__
NewProModel ==
    /\ pc = "new"
    /\ fns # <<>>
    /\ pc' = "ready"
    /\ atnums' = InputAtnums
    /\ atcoords' = InputAtcoords
    /\ ncompute' = 0
    /\ call' = [op |-> "ProModel", err |-> FALSE]
    /\ UNCHANGED <<fns, grid, density, localgrids, pop, pars0, bounds, nevals,
                   optresult, trial, assigned, ret>>

\* The flat vectors a caller can pass: every length up to one more than the
\* model's total parameter count.
ArgVectors == UNION {ParVectors(n) : n \in 0..(TotalNpar(fns) + 1)}

\* A call of ProModel.assign_pars by the model's user.
AssignPars ==
    /\ pc = "ready"
    /\ \E v \in ArgVectors :
         LET r == assign_pars(fns, v)
         IN  /\ fns' = r.fns
             /\ call' = [op |-> "assign_pars", err |-> r.err]
             /\ assigned' = [arg |-> v, total |-> TotalNpar(fns),
                             ok |-> ~r.err]
    /\ ret' = <<>>
    /\ UNCHANGED <<pc, atnums, atcoords, ncompute, grid, density, localgrids,
                   pop, pars0, bounds, nevals, optresult, trial>>

\* A call of ProModel.get_results.
GetResults ==
    /\ pc = "ready"
    /\ call' = [op |-> "get_results", err |-> FALSE]
    /\ ret' = get_results(atnums, fns)
    /\ UNCHANGED <<pc, fns, atnums, atcoords, ncompute, grid, density,
                   localgrids, pop, pars0, bounds, nevals, optresult, trial,
                   assigned>>

\* A read of ProModel.charges.
Charges ==
    /\ pc = "ready"
    /\ call' = [op |-> "charges", err |-> FALSE]
    /\ ret' = charges(atnums, fns)
    /\ UNCHANGED <<pc, fns, atnums, atcoords, ncompute, grid, density,
                   localgrids, pop, pars0, bounds, nevals, optresult, trial,
                   assigned>>

-----------------------------------------------------------------------------
(* State machine: the driver, the evaluator and the radial moments. *)

\* optimize_pro_model up to the call of the minimizer: the local grids, the
\* population, the initial guess and the bounds.
OptimizeStart ==
    /\ pc = "ready"
    /\ \E g \in InputGrids, dens \in InputDensities :
         /\ grid' = g
         /\ density' = dens
         /\ localgrids' =
                [k \in 1..Len(fns) |->
                    get_localgrid(g, fns[k].center,
                        get_cutoff_radius(fns[k], DriverDensityCutoff))]
         /\ pop' = SumSeq([i \in 1..Len(dens) |-> g.weights[i] * dens[i]])
    /\ pars0' = Concatenate([k \in 1..Len(fns) |-> fns[k].pars])
    /\ bounds' = Concatenate([k \in 1..Len(fns) |-> fns[k].bounds])
    /\ pc' = "opt"
    /\ nevals' = 0
    /\ call' = [op |-> "optimize_pro_model", err |-> FALSE]
    /\ ret' = <<>>
    /\ assigned' = NoAssign
    /\ UNCHANGED <<fns, atnums, atcoords, ncompute, optresult, trial>>

\* The minimizer calls the evaluator with a trial vector of the shape of
\* pars0.
Ekld ==
    /\ pc = "opt"
    /\ nevals < MaxEvals
    /\ \E pars \in ParVectors(Len(pars0)) :
         LET r == assign_pars(fns, pars)
         IN  /\ fns' = r.fns
             /\ trial' = pars
             /\ assigned' = [arg |-> pars, total |-> TotalNpar(fns),
                             ok |-> ~r.err]
             /\ IF r.err
                THEN /\ pc' = "raised"
                     /\ call' = [op |-> "ekld", err |-> TRUE]
                     /\ ret' = <<>>
                     /\ UNCHANGED ncompute
                ELSE /\ pc' = pc
                     /\ call' = [op |-> "ekld", err |-> FALSE]
                     /\ ncompute' = ncompute + 1
                     /\ ret' = ekld(pars, grid, density, r.fns, localgrids,
                                    pop, EkldDensityCutoff)
    /\ nevals' = nevals + 1
    /\ UNCHANGED <<atnums, atcoords, grid, density, localgrids, pop, pars0,
                   bounds, optresult>>

\* The minimizer ends, with a result or with an exception, and
\* optimize_pro_model checks the result and wraps up.  The x of a result
\* without success is never read: it is left empty.
OptimizeFinish ==
    /\ pc = "opt"
    /\ nevals >= 1
    /\ \E success \in BOOLEAN, raised \in BOOLEAN,
          x \in ParVectors(Len(pars0)) :
         LET res == IF raised THEN NoResult
                    ELSE [returned |-> TRUE, success |-> success,
                          x |-> IF success THEN x ELSE <<>>]
         IN  /\ optresult' = res
             /\ IF raised \/ ConvergenceFailure(res)
                THEN /\ pc' = "raised"
                     /\ call' = [op |-> "optimize_pro_model", err |-> TRUE]
                     /\ ret' = <<>>
                     /\ UNCHANGED <<fns, assigned>>
                ELSE LET r == WrapUp(fns, res)
                     IN  /\ fns' = r.fns
                         /\ assigned' = [arg |-> res.x,
                                         total |-> TotalNpar(fns),
                                         ok |-> ~r.err]
                         /\ pc' = IF r.err THEN "raised" ELSE "returned"
                         /\ call' = [op |-> "optimize_pro_model",
                                     err |-> r.err]
                         /\ ret' = IF r.err THEN <<>>
                                   ELSE [localgrids |-> localgrids]
    /\ nevals' = 0
    /\ UNCHANGED <<atnums, atcoords, ncompute, grid, density, localgrids, pop,
                   pars0, bounds, trial>>

\* The caller computes the radial moments of the optimized model, with the
\* local grids optimize_pro_model returned, and ends.
ComputeRadialMoments ==
    /\ pc = "returned"
    /\ pc' = "done"
    /\ \E nmax \in {0, MaxDegree} :
         ret' = compute_radial_moments(fns, atnums, atcoords, grid, density,
                                       localgrids, nmax)
    /\ ncompute' = ncompute + 1
    /\ call' = [op |-> "compute_radial_moments", err |-> FALSE]
    /\ UNCHANGED <<fns, atnums, atcoords, grid, density, localgrids, pop,
                   pars0, bounds, nevals, optresult, trial, assigned>>

Next ==
    \/ NewBasisFunction
    \/ NewProModel
    \/ AssignPars
    \/ GetResults
    \/ Charges
    \/ OptimizeStart
    \/ Ekld
    \/ OptimizeFinish
    \/ ComputeRadialMoments

Spec == Init /\ [][Next]_vars

-----------------------------------------------------------------------------
(* The flat layout, as the claims state it. *)

\* offset_k: the sum of npar over the functions before function k.
Offset(fs, k) == SumSeq([j \in 1..(k - 1) |-> npar(fs[j])])

\* The slice [offset_k, offset_k + npar_k) of a flat vector.
LayoutSlice(v, fs, k) == SubSeq(v, Offset(fs, k) + 1, Offset(fs, k) + npar(fs[k]))

\* The functions fs with their parameters read from the flat vector v.
WithPars(fs, v) == [k \in 1..Len(fs) |-> [fs[k] EXCEPT !.pars = LayoutSlice(v, fs, k)]]

\* The grid points that are sick for the density pro of the model.
SickPoints(pro) ==
    {i \in 1..Len(density) :
        density[i] < EkldDensityCutoff \/ pro[i] < EkldDensityCutoff}

-----------------------------------------------------------------------------
(* Claims *)

\* C1: assign_pars(v) fails with an error whenever the length of v differs
\* from the model's total parameter count, for v too short and v too long.
C1_AssignParsFailsOnLengthMismatch ==
    (call.op = "assign_pars" /\ Len(assigned.arg) # assigned.total)
        => call.err

\* C2: after assign_pars(p) with p of the model's total length, get_results()
\* returns propars equal to p, and function k holds the slice of p at its
\* offset, whatever the model held before.
C2_RoundTrip ==
    (call.op = "get_results" /\ assigned.ok
     /\ Len(assigned.arg) = assigned.total)
        => /\ ret.propars = assigned.arg
           /\ \A k \in 1..Len(fns) :
                  fns[k].pars = LayoutSlice(assigned.arg, fns, k)

C2_Witness ==
    /\ call.op = "get_results"
    /\ assigned.ok
    /\ Len(assigned.arg) = assigned.total
    /\ Len(fns) = 2
    /\ npar(fns[1]) >= 1
    /\ npar(fns[2]) >= 1
    /\ assigned.arg # pars0

\* C3: when the minimizer reports failure, optimize_pro_model raises and
\* returns nothing, and no later state has the driver running or returned.
C3_NoReturnAfterFailure ==
    /\ (optresult.returned /\ ~optresult.success)
           => /\ pc = "raised"
              /\ call = [op |-> "optimize_pro_model", err |-> TRUE]
              /\ ret = <<>>
    /\ pc \in {"returned", "done"} => optresult.returned /\ optresult.success

C3_Witness ==
    /\ optresult.returned
    /\ ~optresult.success
    /\ pc = "raised"
    /\ Len(fns) = 2

\* C4: when the minimizer reports success, optimize_pro_model returns the
\* model with its concatenated parameters equal to the minimizer's x,
\* whatever the last trial vector was, and the local grids built from the
\* initial parameters before the first evaluation, one per function.
C4_ReturnsMinimizerResult ==
    pc = "returned"
        => /\ Concatenate([k \in 1..Len(fns) |-> fns[k].pars]) = optresult.x
           /\ \A k \in 1..Len(fns) : fns[k].pars = LayoutSlice(optresult.x, fns, k)
           /\ ret.localgrids = localgrids
           /\ Len(localgrids) = Len(fns)
           /\ \A k \in 1..Len(fns) :
                  localgrids[k] =
                      get_localgrid(grid, fns[k].center,
                          get_cutoff_radius(WithPars(fns, pars0)[k],
                                            DriverDensityCutoff))

C4_Witness ==
    /\ pc = "returned"
    /\ Len(fns) = 2
    /\ npar(fns[1]) >= 1
    /\ npar(fns[2]) >= 1
    /\ trial # optresult.x
    /\ pars0 # optresult.x

\* C5: what ekld(p) returns depends on p alone, not on the parameters the
\* model held or on earlier calls; after the call the functions hold p, and
\* ncompute has grown by one per call.
C5_EvaluatorStateless ==
    /\ (call.op = "ekld" /\ ~call.err)
           => /\ ret = ekld(assigned.arg, grid, density,
                            WithPars(fns, assigned.arg), localgrids, pop,
                            EkldDensityCutoff)
              /\ Concatenate([k \in 1..Len(fns) |-> fns[k].pars])
                     = assigned.arg
    /\ pc = "opt" => ncompute = nevals

C5_Witness ==
    /\ call.op = "ekld"
    /\ ~call.err
    /\ nevals >= 2
    /\ Len(fns) = 2
    /\ npar(fns[1]) >= 1
    /\ npar(fns[2]) >= 1
    /\ assigned.arg # pars0

\* C6: in ekld, a grid point where the reference density or the model
\* density is below the cutoff adds nothing to kld and nothing to the ratio
\* projection of any gradient slice: both are the sums over the other
\* points, and neither changes with the density or the weight at the point.
C6_SickPointsContributeZero ==
    (call.op = "ekld" /\ ~call.err)
        => LET pro == compute_density(fns, grid, localgrids)
               S == SickPoints(pro)
           IN  /\ ret.kld =
                      SumSeq([i \in 1..Len(density) |->
                          IF i \in S THEN 0
                          ELSE grid.weights[i] * density[i]
                               * (Log(density[i]) - Log(pro[i]))])
               /\ \A k \in 1..Len(fns) : \A j \in 1..npar(fns[k]) :
                      ret.gradient[Offset(fns, k) + j] =
                          population_derivatives(fns[k])[j]
                          - SumSeq([m \in 1..Len(localgrids[k].indices) |->
                              LET i == localgrids[k].indices[m]
                              IN  IF i \in S THEN 0
                                  ELSE localgrids[k].weights[m]
                                       * Divide(density[i], pro[i])
                                       * compute_derivatives(fns[k],
                                             localgrids[k].points)[j][m]])
               /\ \A i \in S, d2 \in 0..2, w2 \in 1..2 :
                      (d2 < EkldDensityCutoff \/ pro[i] < EkldDensityCutoff)
                          => LET dens2 == [density EXCEPT ![i] = d2]
                                 g2 == [grid EXCEPT !.weights[i] = w2]
                                 lgs2 == [k \in 1..Len(localgrids) |->
                                     [localgrids[k] EXCEPT !.weights =
                                         [m \in 1..Len(localgrids[k].indices) |->
                                             IF localgrids[k].indices[m] = i
                                             THEN w2
                                             ELSE localgrids[k].weights[m]]]]
                                 r2 == ekld(assigned.arg, g2, dens2, fns, lgs2,
                                            pop, EkldDensityCutoff)
                             IN  /\ r2.kld = ret.kld
                                 /\ r2.gradient = ret.gradient

C6_Witness ==
    /\ call.op = "ekld"
    /\ ~call.err
    /\ LET pro == compute_density(fns, grid, localgrids)
       IN  /\ \E i \in 1..Len(density) :
                 /\ density[i] >= EkldDensityCutoff
                 /\ pro[i] < EkldDensityCutoff
                 /\ \E k \in 1..Len(fns) : \E m \in 1..Len(localgrids[k].indices) :
                        localgrids[k].indices[m] = i /\ npar(fns[k]) >= 1
           /\ \E i \in 1..Len(density) :
                 /\ density[i] < EkldDensityCutoff
                 /\ pro[i] >= EkldDensityCutoff
           /\ \E i \in 1..Len(density) : i \notin SickPoints(pro)

\* C7: charges[a] is atnums[a] minus the populations of exactly the
\* functions of atom a, and the charges sum to the sum of the atomic numbers
\* minus the model's population.
C7_ChargesPerAtom ==
    call.op = "charges"
        => /\ \A a \in 1..Len(atnums) :
                  ret[a] = atnums[a]
                           - SumSeq([k \in 1..Len(fns) |->
                                 IF fns[k].iatom + 1 = a
                                 THEN population(fns[k]) ELSE 0])
           /\ SumSeq(ret) = SumSeq(atnums) - ModelPopulation(fns)

C7_Witness ==
    /\ call.op = "charges"
    /\ assigned.ok
    /\ Len(fns) = 2
    /\ fns[1].iatom = fns[2].iatom
    /\ population(fns[1]) > 0
    /\ population(fns[2]) > 0

\* C8: every BasisFunction has as many parameters as bounds, in every
\* state.
C8_ParsBoundsSameLength ==
    \A k \in 1..Len(fns) : Len(fns[k].pars) = Len(fns[k].bounds)

\* C9: compute_radial_moments leaves the functions' parameters, the atom
\* data and ncompute as they were.
C9_RadialMomentsDoNotMutate ==
    [][ComputeRadialMoments
           => /\ fns' = fns
              /\ atnums' = atnums
              /\ atcoords' = atcoords
              /\ ncompute' = ncompute]_vars

\* C10: the slice at offset_k of length npar_k holds function k's initial
\* parameters in pars0, its bounds in the driver's bounds, its parameters as
\* assign_pars consumed them and its gradient entries; the gradient is as
\* long as the parameter vector and slice k comes from local grid k.
C10_OneFlatLayout ==
    pc = "opt"
        => \A k \in 1..Len(fns) :
               /\ LayoutSlice(bounds, fns, k) = fns[k].bounds
               /\ nevals = 0 => LayoutSlice(pars0, fns, k) = fns[k].pars
               /\ (call.op = "ekld" /\ ~call.err)
                      => /\ LayoutSlice(assigned.arg, fns, k) = fns[k].pars
                         /\ Len(ret.gradient) = Len(assigned.arg)
                         /\ LayoutSlice(ret.gradient, fns, k) =
                                GradientSlice(fns[k], localgrids[k],
                                    ratio(density,
                                          compute_density(fns, grid, localgrids),
                                          EkldDensityCutoff))

====
